---- MODULE Spec2Model ----
(***************************************************************************)
(* i18n-ally: the DeepL glossary handling (DeeplGlossaries, DeepL.translate *)
(* and the glossary commands), the LocaleNode value accessor and the        *)
(* pending write queue.                                                     *)
(*                                                                          *)
(* JavaScript runs one task at a time: a handler runs from one await on a   *)
(* network request to the next without interleaving, so every action below  *)
(* is one such stretch of code.  A request to the DeepL server is in flight *)
(* between the action that issues it and the action that delivers its       *)
(* response; the server applies a request when it answers it.               *)
(***************************************************************************)
EXTENDS Integers, Sequences, FiniteSets, TLC

VARIABLES
  enabled,    \* Config.deeplGlossariesDir is set
  now,        \* Date.now(), in ms
  server,     \* the glossaries kept on the DeepL servers, oldest first
  nextId,     \* the id the server gives the next glossary it creates
  cache,      \* DeeplGlossaries.cache (static)
  hist,       \* history of the cache: last store of a fetched list, invalidation since
  upd,        \* the running DeeplGlossaries.updateGlossary call
  dels,       \* DELETE /glossaries/{id} requests in flight, id -> number
  tr,         \* the running DeepL.translate call
  rd,         \* the running readGlossaryList call (direct, or by the list command)
  node,       \* the LocaleNode constructed last
  got,        \* the last LocaleNode.getValue call and its result
  queue,      \* the pending write queue
  lastEnq,    \* history: (locale, keypath) -> value of the last enqueue since the last flush
  flushed     \* the per-write results of the last flush

deeplVars == <<enabled, now, server, nextId, cache, hist, upd, dels, tr, rd>>
nodeVars  == <<node, got>>
queueVars == <<queue, lastEnq, flushed>>
vars      == <<enabled, now, server, nextId, cache, hist, upd, dels, tr, rd,
               node, got, queue, lastEnq, flushed>>

----------------------------------------------------------------------------
(* Bounds *)

MaxGlossaries == 2       \* glossaries the server creates in one run
MaxDeletes == 1          \* DELETE requests in flight for one id
StartTime == 30000       \* Date.now() at start-up
TickStep == 30000        \* the clock advances in steps of this many ms
MaxTicks == 2            \* number of clock steps in one run

----------------------------------------------------------------------------
(* Values *)

\* A locale code is a string; it is modelled as the tuple of its characters so
\* that indexOf and slice do what they do on strings.
EN   == <<"e", "n">>
DE   == <<"d", "e">>
ENUS == <<"e", "n", "-", "U", "S">>
NoLocale == <<>>          \* '' or undefined: both are falsy and have no '-'

\* Languages of glossary files: GLOSSARY_FILE_REGEX admits \w{2,3} on both sides.
GlossaryLangs == {EN, DE}
GlossaryPairs == {<<DE, EN>>, <<EN, DE>>}     \* <<targetLanguage, sourceLanguage>>

\* TranslateOptions.from / .to
FromLocales == {NoLocale, EN, ENUS}
ToLocales   == {NoLocale, DE}

\* File contents handed to updateGlossary: empty, or some CSV.
Contents == {"", "csv"}

NoTime == 0 - 1           \* lastUpdate: undefined
NoId   == 0               \* glossary_id: undefined (ids of the server are 1, 2, ...)

GlossaryIdRange == 1..MaxGlossaries

Truthy(s) == s # <<>>     \* !!s of a string

----------------------------------------------------------------------------
(* stripeLocaleCode *)

RECURSIVE indexOfFrom(_, _, _)
indexOfFrom(s, ch, i) ==
  IF i > Len(s) THEN 0 - 1
  ELSE IF s[i] = ch THEN i - 1
  ELSE indexOfFrom(s, ch, i + 1)

\* String.prototype.indexOf: 0-based, -1 when absent
indexOf(s, ch) == indexOfFrom(s, ch, 1)

\* String.prototype.slice(0, end)
slice0(s, end) == SubSeq(s, 1, end)

stripeLocaleCode(locale) ==
  IF ~Truthy(locale) THEN locale
  ELSE LET index == indexOf(locale, "-")
       IN IF index = 0 - 1 THEN locale ELSE slice0(locale, index)

----------------------------------------------------------------------------
(* The glossary cache *)

GLOSSARY_CACHE_TTL == 60 * 1000

EmptyCache == [lastUpdate |-> NoTime, glossaries |-> <<>>]

isCachedMutant(c, t) ==
  c.lastUpdate # NoTime /\ c.lastUpdate # 0
  /\ t - c.lastUpdate <= GLOSSARY_CACHE_TTL

\* !!(cache.lastUpdate && Date.now() - cache.lastUpdate < GLOSSARY_CACHE_TTL)
isCached(c, t) ==
  c.lastUpdate # NoTime /\ c.lastUpdate # 0
  /\ t - c.lastUpdate < GLOSSARY_CACHE_TTL

invalidateCache(c) == [lastUpdate |-> 0, glossaries |-> <<>>]

\* cache.lastUpdate = Date.now(); cache.glossaries = glossaries
storeCache(list, t) == [lastUpdate |-> t, glossaries |-> list]

\* History of the cache, kept beside it: the list a fetch stored last and when,
\* and whether invalidateCache() has been called since
histStored(list, t) == [storedAt |-> t, payload |-> list, invalidated |-> FALSE]
histInvalidated(h)  == [h EXCEPT !.invalidated = TRUE]

\* readGlossaryList(forceUpdate = false) answers from the cache
readGlossaryListHit(c, t, forceUpdate) == isCached(c, t) /\ ~forceUpdate

\* readGlossaryList() of translators/engines/deepl.ts: it takes no parameter,
\* an argument passed to it is dropped
readGlossaryListEngineHit(c, t, argument) == isCached(c, t)

----------------------------------------------------------------------------
(* Glossary lookup *)

Glossary(id, src, tgt) == [glossary_id |-> id, source_lang |-> src, target_lang |-> tgt]

RECURSIVE mapIds(_)
mapIds(list) ==
  IF list = <<>> THEN <<>> ELSE <<Head(list).glossary_id>> \o mapIds(Tail(list))

matches(g, targetLanguage, sourceLanguage) ==
  g.source_lang = sourceLanguage /\ g.target_lang = targetLanguage

\* getGlossaryIds, after readGlossaryList() has returned `list`
getGlossaryIds(list, targetLanguage, sourceLanguage) ==
  mapIds(SelectSeq(list, LAMBDA g : matches(g, targetLanguage, sourceLanguage)))

\* getGlossaryId, after readGlossaryList() has returned `list`
getGlossaryId(list, targetLanguage, sourceLanguage) ==
  LET glossaries == getGlossaryIds(list, targetLanguage, sourceLanguage)
  IN IF Len(glossaries) >= 1 THEN glossaries[1] ELSE NoId

Range(s) == {s[i] : i \in DOMAIN s}

\* Promise outcomes of getTranslationRequestGlossaryIdentifier:
\* {} is glossary_id = NoId
Resolved(id) == [kind |-> "resolved", glossary_id |-> id]
Rejected     == [kind |-> "rejected", glossary_id |-> NoId]

\* glossaries.isEnabled() && options.from && options.to
needsGlossary(on, from, to) == on /\ Truthy(from) /\ Truthy(to)

identifierOnErrorMutant == Rejected

\* catch (error) { log(...) }  return {}
identifierOnError == Resolved(NoId)

\* if (glossaryId) return {glossary_id: glossaryId};  return {}
identifierFromList(list, from, to) ==
  LET glossaryId == getGlossaryId(list, to, from)
  IN IF glossaryId # NoId THEN Resolved(glossaryId) ELSE Resolved(NoId)

----------------------------------------------------------------------------
(* Call records *)

IdleUpdate == [pc |-> "idle", targetLanguage |-> NoLocale, sourceLanguage |-> NoLocale,
               content |-> "", listed |-> {}]

NoRequest == [source_lang |-> NoLocale, target_lang |-> NoLocale, glossary_id |-> NoId]

IdleTranslate == [pc |-> "idle", from |-> NoLocale, to |-> NoLocale, read |-> "none",
                  list |-> <<>>, ident |-> Resolved(NoId), request |-> NoRequest]

IdleRead == [pc |-> "idle", caller |-> "none", forceUpdate |-> FALSE,
             requested |-> FALSE, result |-> <<>>]

NoHistory == [storedAt |-> NoTime, payload |-> <<>>, invalidated |-> FALSE]

ServerIds == {g.glossary_id : g \in Range(server)}

----------------------------------------------------------------------------
(* DeeplGlossaries.updateGlossary *)

updateGlossaryFinallyMutant(c, outcome) ==
  IF outcome = "resolved" THEN invalidateCache(c) ELSE c

\* finally { this.invalidateCache() }
updateGlossaryFinally(c, outcome) == invalidateCache(c)

\* glossaries.forEach(async id => { await this.deleteGlossary(id) }):
\* every deleteGlossary(id) issues its DELETE request and is not awaited
issueDeletes(d, ids) == [id \in DOMAIN d |-> IF id \in ids THEN d[id] + 1 ELSE d[id]]

settleUpdate(c, h, outcome) ==
  /\ cache' = updateGlossaryFinally(c, outcome)
  /\ hist' = histInvalidated(h)

\* updateGlossary from the return of getGlossaryIds to the request of
\* createGlossary: `list` is what readGlossaryList returned, `c` the cache and
\* `h` its history then
updateGlossaryAfterList(call, list, c, h) ==
  LET ids == Range(getGlossaryIds(list, call.targetLanguage, call.sourceLanguage))
  IN /\ \A id \in ids : dels[id] < MaxDeletes
     /\ dels' = issueDeletes(dels, ids)
     /\ IF call.content = ""
        THEN \* createGlossary throws before it sends anything
             /\ upd' = [call EXCEPT !.pc = "rejected", !.listed = ids]
             /\ settleUpdate(c, h, "rejected")
        ELSE /\ upd' = [call EXCEPT !.pc = "create", !.listed = ids]
             /\ cache' = c
             /\ hist' = h

\* The update commands: checkEnabled(), then updateGlossary(target, source, content)
UpdateGlossaryCall(targetLanguage, sourceLanguage, content) ==
  /\ upd.pc = "idle"
  /\ enabled
  /\ nextId <= MaxGlossaries
  /\ LET call == [IdleUpdate EXCEPT !.targetLanguage = targetLanguage,
                                    !.sourceLanguage = sourceLanguage,
                                    !.content = content]
     IN IF readGlossaryListHit(cache, now, FALSE)
        THEN updateGlossaryAfterList(call, cache.glossaries, cache, hist)
        ELSE /\ upd' = [call EXCEPT !.pc = "list"]
             /\ UNCHANGED <<cache, hist, dels>>
  /\ UNCHANGED <<enabled, now, server, nextId, tr, rd>>
  /\ UNCHANGED <<nodeVars, queueVars>>

\* GET /glossaries answers the read of updateGlossary
UpdateGlossaryListResponse(ok) ==
  /\ upd.pc = "list"
  /\ IF ok
     THEN updateGlossaryAfterList(upd, server, storeCache(server, now),
                                  histStored(server, now))
     ELSE /\ upd' = [upd EXCEPT !.pc = "rejected"]
          /\ settleUpdate(cache, hist, "rejected")
          /\ UNCHANGED dels
  /\ UNCHANGED <<enabled, now, server, nextId, tr, rd>>
  /\ UNCHANGED <<nodeVars, queueVars>>

\* POST /glossaries answers createGlossary: status 201, or anything else
UpdateGlossaryCreateResponse(created) ==
  /\ upd.pc = "create"
  /\ IF created
     THEN /\ server' = Append(server, Glossary(nextId, upd.sourceLanguage, upd.targetLanguage))
          /\ nextId' = nextId + 1
          /\ upd' = [upd EXCEPT !.pc = "resolved"]
          /\ settleUpdate(cache, hist, "resolved")
     ELSE /\ upd' = [upd EXCEPT !.pc = "rejected"]
          /\ settleUpdate(cache, hist, "rejected")
          /\ UNCHANGED <<server, nextId>>
  /\ UNCHANGED <<enabled, now, dels, tr, rd>>
  /\ UNCHANGED <<nodeVars, queueVars>>

\* The command reports the outcome
UpdateGlossaryReturn ==
  /\ upd.pc \in {"resolved", "rejected"}
  /\ upd' = IdleUpdate
  /\ UNCHANGED <<enabled, now, server, nextId, cache, hist, dels, tr, rd>>
  /\ UNCHANGED <<nodeVars, queueVars>>

\* DELETE /glossaries/{id} is answered: 204 and the glossary is gone, or an
\* error that deleteGlossary logs and rethrows into the callback nobody awaits
DeleteResponse(id, ok) ==
  /\ dels[id] > 0
  /\ dels' = [dels EXCEPT ![id] = @ - 1]
  /\ server' = IF ok /\ id \in ServerIds
               THEN SelectSeq(server, LAMBDA g : g.glossary_id # id)
               ELSE server
  /\ UNCHANGED <<enabled, now, nextId, cache, hist, upd, tr, rd>>
  /\ UNCHANGED <<nodeVars, queueVars>>

\* Time passes
Tick ==
  /\ now + TickStep <= StartTime + MaxTicks * TickStep
  /\ now' = now + TickStep
  /\ UNCHANGED <<enabled, server, nextId, cache, hist, upd, dels, tr, rd>>
  /\ UNCHANGED <<nodeVars, queueVars>>

----------------------------------------------------------------------------
(* DeepL.translate and getTranslationRequestGlossaryIdentifier *)

\* translate, once getTranslationRequestGlossaryIdentifier has settled:
\* a rejection is rethrown by translate, otherwise POST /translate is sent
translateSend(call, ident) ==
  IF ident.kind = "rejected"
  THEN [call EXCEPT !.pc = "failed", !.ident = ident]
  ELSE [call EXCEPT !.pc = "sent", !.ident = ident,
                    !.request = [source_lang |-> stripeLocaleCode(call.from),
                                 target_lang |-> stripeLocaleCode(call.to),
                                 glossary_id |-> ident.glossary_id]]

TranslateCall(from, to) ==
  /\ tr.pc = "idle"
  /\ LET call == [IdleTranslate EXCEPT !.from = from, !.to = to]
     IN IF needsGlossary(enabled, from, to)
        THEN IF readGlossaryListHit(cache, now, FALSE)
             THEN tr' = translateSend([call EXCEPT !.read = "cache", !.list = cache.glossaries],
                                      identifierFromList(cache.glossaries, from, to))
             ELSE tr' = [call EXCEPT !.pc = "list"]
        ELSE tr' = translateSend(call, Resolved(NoId))
  /\ UNCHANGED <<enabled, now, server, nextId, cache, hist, upd, dels, rd>>
  /\ UNCHANGED <<nodeVars, queueVars>>

\* GET /glossaries answers the read of getGlossaryId
TranslateListResponse(ok) ==
  /\ tr.pc = "list"
  /\ IF ok
     THEN /\ cache' = storeCache(server, now)
          /\ hist' = histStored(server, now)
          /\ tr' = translateSend([tr EXCEPT !.read = "fetched", !.list = server],
                                 identifierFromList(server, tr.from, tr.to))
     ELSE /\ tr' = translateSend([tr EXCEPT !.read = "failed"], identifierOnError)
          /\ UNCHANGED <<cache, hist>>
  /\ UNCHANGED <<enabled, now, server, nextId, upd, dels, rd>>
  /\ UNCHANGED <<nodeVars, queueVars>>

\* POST /translate is answered, or translate has thrown
TranslateReturn ==
  /\ tr.pc \in {"sent", "failed"}
  /\ tr' = IdleTranslate
  /\ UNCHANGED <<enabled, now, server, nextId, cache, hist, upd, dels, rd>>
  /\ UNCHANGED <<nodeVars, queueVars>>

----------------------------------------------------------------------------
(* readGlossaryList, and the list-glossaries command *)

readStart(caller, forceUpdate, hit) ==
  IF hit
  THEN rd' = [IdleRead EXCEPT !.pc = "done", !.caller = caller, !.forceUpdate = forceUpdate,
                              !.result = cache.glossaries]
  ELSE rd' = [IdleRead EXCEPT !.pc = "list", !.caller = caller, !.forceUpdate = forceUpdate,
                              !.requested = TRUE]

\* readGlossaryList(forceUpdate)
ReadGlossaryListCall(forceUpdate) ==
  /\ rd.pc = "idle"
  /\ readStart("direct", forceUpdate, readGlossaryListHit(cache, now, forceUpdate))
  /\ UNCHANGED <<enabled, now, server, nextId, cache, hist, upd, dels, tr>>
  /\ UNCHANGED <<nodeVars, queueVars>>

\* DeeplGlossaryCommands.listGlossaries: checkEnabled(), then
\* this.glossaries.readGlossaryList(true) of '~/translators/engines/deepl'
ListGlossariesCall ==
  /\ rd.pc = "idle"
  /\ enabled
  /\ readStart("command", TRUE, readGlossaryListEngineHit(cache, now, TRUE))
  /\ UNCHANGED <<enabled, now, server, nextId, cache, hist, upd, dels, tr>>
  /\ UNCHANGED <<nodeVars, queueVars>>

\* GET /glossaries answers readGlossaryList
ReadGlossaryListResponse(ok) ==
  /\ rd.pc = "list"
  /\ IF ok
     THEN /\ cache' = storeCache(server, now)
          /\ hist' = histStored(server, now)
          /\ rd' = [rd EXCEPT !.pc = "done", !.result = server]
     ELSE /\ rd' = [rd EXCEPT !.pc = "failed"]
          /\ UNCHANGED <<cache, hist>>
  /\ UNCHANGED <<enabled, now, server, nextId, upd, dels, tr>>
  /\ UNCHANGED <<nodeVars, queueVars>>

\* The caller has the list (the command prints it) or the error
ReadGlossaryListReturn ==
  /\ rd.pc \in {"done", "failed"}
  /\ rd' = IdleRead
  /\ UNCHANGED <<enabled, now, server, nextId, cache, hist, upd, dels, tr>>
  /\ UNCHANGED <<nodeVars, queueVars>>

----------------------------------------------------------------------------
(* LocaleNode *)

\* A keypath is a string, modelled as the tuple of its characters
KeyAB == <<"a", ".", "b">>
KeyX  == <<"x">>
KeyPaths == {KeyAB, KeyX}

Locales == {"en", "de"}
QueryLocales == Locales \cup {"fr"}

\* Record values: empty, or some text
Values == {"", "hi"}

\* undefined, where a string may stand; no value or fallback is this string
Undefined == "<undefined>"
Fallbacks == {Undefined, "", "fb"}      \* Undefined: the argument is left out

RECURSIVE lastSegment(_, _)
lastSegment(s, acc) ==
  IF s = <<>> THEN acc
  ELSE IF Head(s) = "." THEN lastSegment(Tail(s), <<>>)
  ELSE lastSegment(Tail(s), Append(acc, Head(s)))

\* getKeyname of ./utils: the last segment of the keypath
getKeyname(keypath) == lastSegment(keypath, <<>>)

\* LocaleRecord (filepath?, which nothing here reads, is left out)
LocaleRecord(keypath, locale, value, shadow) ==
  [keypath |-> keypath, keyname |-> getKeyname(keypath), value |-> value,
   locale |-> locale, shadow |-> shadow, type |-> "record"]

RecordsOf(locale) ==
  {LocaleRecord(k, locale, v, sh) : k \in KeyPaths, v \in Values, sh \in BOOLEAN}

\* Record<string, LocaleRecord>: a map from some of the locales to a record each
LocaleMaps ==
  UNION {{m \in [ls -> UNION {RecordsOf(l) : l \in ls}] : \A l \in ls : m[l].locale = l} :
         ls \in SUBSET Locales}

NoNode == [type |-> "none"]
NoCall == [locale |-> "", fallback |-> "", result |-> ""]

\* constructor(keypath, locales = {}, shadow = false)
LocaleNode(keypath, locales, shadow) ==
  [keypath |-> keypath, keyname |-> getKeyname(keypath), locales |-> locales,
   shadow |-> shadow, type |-> "node"]

getValueMutant(n, locale, fallback) ==
  IF locale \in DOMAIN n.locales THEN n.locales[locale].value ELSE Undefined

\* getValue(locale, fallback = ''):
\*   (this.locales[locale] && this.locales[locale].value) || fallback
getValue(n, locale, fallback) ==
  LET fb == IF fallback = Undefined THEN "" ELSE fallback
      v  == IF locale \in DOMAIN n.locales THEN n.locales[locale].value ELSE Undefined
  IN IF v # Undefined /\ v # "" THEN v ELSE fb

NewLocaleNode(keypath, locales, shadow) ==
  /\ node' = LocaleNode(keypath, locales, shadow)
  /\ got' = NoCall
  /\ UNCHANGED <<deeplVars, queueVars>>

GetValue(locale, fallback) ==
  /\ node.type = "node"
  /\ got' = [locale |-> locale, fallback |-> fallback,
             result |-> getValue(node, locale, fallback)]
  /\ UNCHANGED <<node, deeplVars, queueVars>>

----------------------------------------------------------------------------
(* Pending write queue *)

WriteValues == {"v1", "v2"}

\* The (locale, keypath) pairs written: two keypaths of one locale, two locales
\* of one keypath
WritePairs == {<<"en", KeyAB>>, <<"en", KeyX>>, <<"de", KeyAB>>}

\* PendingWrite (filepath?, which the queue does not read, is left out)
PendingWrite(locale, keypath, value) ==
  [locale |-> locale, keypath |-> keypath, value |-> value]

writeKey(w) == <<w.locale, w.keypath>>

enqueueMutant(q, w) == Append(q, w)

\* enqueue: a write replaces the queued write of its (locale, keypath)
enqueue(q, w) ==
  Append(SelectSeq(q, LAMBDA e : writeKey(e) # writeKey(w)), w)

RECURSIVE flushResults(_, _)
\* flush: every write of the batch is tried, whatever became of the others
flushResults(batch, okAt) ==
  IF batch = <<>> THEN <<>>
  ELSE <<[write |-> Head(batch), ok |-> okAt[Len(okAt) - Len(batch) + 1]]>>
       \o flushResults(Tail(batch), okAt)

\* History of the enqueues since the last flush: for every (locale, keypath)
\* the value enqueued last and the value of the queued write it replaced
NoEnqueues == [k \in {} |-> 0]
NoValue == "<none>"

replacedBy(h, k) == IF k \in DOMAIN h THEN h[k].value ELSE NoValue

Enqueue(locale, keypath, value) ==
  LET w == PendingWrite(locale, keypath, value)
      h == IF queue = <<>> THEN NoEnqueues ELSE lastEnq
  IN /\ queue' = enqueue(queue, w)
     /\ lastEnq' = [k \in DOMAIN h \cup {writeKey(w)} |->
                      IF k = writeKey(w)
                      THEN [value |-> value, replaced |-> replacedBy(h, k)]
                      ELSE h[k]]
     /\ flushed' = <<>>
     /\ UNCHANGED <<deeplVars, nodeVars>>

\* flush(): the whole queue goes to the persistence adapter as one batch; the
\* adapter persists or fails each write (okAt) on its own
Flush ==
  /\ queue # <<>>
  /\ \E okAt \in [1..Len(queue) -> BOOLEAN] : flushed' = flushResults(queue, okAt)
  /\ queue' = <<>>
  /\ UNCHANGED <<lastEnq, deeplVars, nodeVars>>

----------------------------------------------------------------------------
(* Specifications *)

InitDeepl ==
  /\ enabled \in BOOLEAN
  /\ now = StartTime
  /\ server = <<>>
  /\ nextId = 1
  /\ cache = EmptyCache
  /\ hist = NoHistory
  /\ upd = IdleUpdate
  /\ dels = [id \in GlossaryIdRange |-> 0]
  /\ tr = IdleTranslate
  /\ rd = IdleRead

InitNode == node = NoNode /\ got = NoCall

InitQueue == queue = <<>> /\ lastEnq = NoEnqueues /\ flushed = <<>>

Init == InitDeepl /\ InitNode /\ InitQueue

NextGlossary ==
  \/ \E p \in GlossaryPairs, content \in Contents : UpdateGlossaryCall(p[1], p[2], content)
  \/ \E ok \in BOOLEAN : UpdateGlossaryListResponse(ok)
  \/ \E created \in BOOLEAN : UpdateGlossaryCreateResponse(created)
  \/ UpdateGlossaryReturn
  \/ \E id \in GlossaryIdRange, ok \in BOOLEAN : DeleteResponse(id, ok)
  \/ Tick
  \/ \E forceUpdate \in BOOLEAN : ReadGlossaryListCall(forceUpdate)
  \/ ListGlossariesCall
  \/ \E ok \in BOOLEAN : ReadGlossaryListResponse(ok)
  \/ ReadGlossaryListReturn

NextTranslate ==
  \/ \E p \in GlossaryPairs, content \in Contents : UpdateGlossaryCall(p[1], p[2], content)
  \/ \E ok \in BOOLEAN : UpdateGlossaryListResponse(ok)
  \/ \E created \in BOOLEAN : UpdateGlossaryCreateResponse(created)
  \/ UpdateGlossaryReturn
  \/ \E id \in GlossaryIdRange, ok \in BOOLEAN : DeleteResponse(id, ok)
  \/ Tick
  \/ \E from \in FromLocales, to \in ToLocales : TranslateCall(from, to)
  \/ \E ok \in BOOLEAN : TranslateListResponse(ok)
  \/ TranslateReturn

NextNode ==
  \/ \E keypath \in KeyPaths, locales \in LocaleMaps, shadow \in BOOLEAN :
       NewLocaleNode(keypath, locales, shadow)
  \/ \E locale \in QueryLocales, fallback \in Fallbacks : GetValue(locale, fallback)

NextQueue ==
  \/ \E pair \in WritePairs, value \in WriteValues : Enqueue(pair[1], pair[2], value)
  \/ Flush

\* Glossary maintenance: updates, reads and the list command
SpecGlossary == Init /\ [][NextGlossary]_vars

\* Translation while glossaries are maintained
SpecTranslate == Init /\ [][NextTranslate]_vars

\* Construction of LocaleNodes and reads of their values
SpecNode == Init /\ [][NextNode]_vars

\* Enqueues and flushes of pending writes
SpecQueue == Init /\ [][NextQueue]_vars

----------------------------------------------------------------------------
(* Properties of the glossary handling *)

updateSettled(call) == call.pc \in {"resolved", "rejected"}

pairGlossaries(list, call) ==
  {g \in Range(list) : matches(g, call.targetLanguage, call.sourceLanguage)}

\* C1: when updateGlossary has resolved, every glossary it listed for the pair
\* is deleted on the server, no delete request for one of them is still in
\* flight, and the only glossary of the pair on the server is the one just
\* created.
UpdateGlossaryDeletesBeforeResolve ==
  upd.pc = "resolved" =>
    /\ \A id \in upd.listed : dels[id] = 0 /\ id \notin ServerIds
    /\ pairGlossaries(server, upd)
         = {Glossary(nextId - 1, upd.sourceLanguage, upd.targetLanguage)}

\* The cache is fresh by its history: a fetched list was stored less than
\* 60000 ms ago and invalidateCache() has not been called since.
FreshByHistory ==
  /\ hist.storedAt # NoTime
  /\ ~hist.invalidated
  /\ now - hist.storedAt < 60000

readStarts == rd.pc = "idle" /\ rd'.pc # "idle" /\ rd'.caller = "direct"

readStores == rd.pc = "list" /\ rd'.pc = "done"

UpdateGlossaryInvalidatesCache ==
  [][(~updateSettled(upd) /\ updateSettled(upd'))
       => /\ ~isCached(cache', now')
          /\ ~readGlossaryListHit(cache', now', FALSE)]_vars

\* updateGlossary was rejected for empty content although the list it read was
\* stored less than 60000 ms ago.
UpdateGlossaryInvalidatesCacheWitness ==
  /\ upd.pc = "rejected" /\ upd.content = ""
  /\ hist.storedAt # NoTime /\ now - hist.storedAt < 60000
  /\ cache.lastUpdate = 0

translateSettled == tr.pc \in {"sent", "failed"}

\* C2: getTranslationRequestGlossaryIdentifier never rejects; it resolves to {}
\* when glossaries are disabled, from or to is missing, the read failed or no
\* glossary of the list matches; a glossary_id it resolves to is that of a
\* glossary of the list with source_lang = from and target_lang = to.
IdentifierNeverRejects ==
  translateSettled =>
    /\ tr.ident.kind = "resolved"
    /\ ( \/ ~enabled
         \/ tr.from = NoLocale
         \/ tr.to = NoLocale
         \/ tr.read = "failed"
         \/ ~\E g \in Range(tr.list) : g.source_lang = tr.from /\ g.target_lang = tr.to )
       => tr.ident.glossary_id = NoId
    /\ tr.ident.glossary_id # NoId
       => \E g \in Range(tr.list) :
            /\ g.glossary_id = tr.ident.glossary_id
            /\ g.source_lang = tr.from
            /\ g.target_lang = tr.to

\* The read of the glossary list failed and translate sent its request without
\* a glossary.
IdentifierNeverRejectsWitness ==
  tr.pc = "sent" /\ tr.read = "failed" /\ tr.request.glossary_id = NoId

translateSends == tr.pc # "sent" /\ tr'.pc = "sent"

requestGlossaries(list, request) ==
  {g \in Range(list) : /\ g.source_lang = request.source_lang
                       /\ g.target_lang = request.target_lang}

\* C5: with glossaries enabled, a translate request whose source_lang and
\* target_lang are those of a glossary on the server carries the id of such a
\* glossary, and an id it carries is that of a glossary with its languages.
\* Stated for the requests most favourable to the claim: those whose glossary
\* list has just been fetched from the server, so that neither a failed read
\* nor an aged cache stands between the server's list and the request.
TranslateAppliesGlossary ==
  [][(translateSends /\ enabled /\ tr'.read = "fetched")
       => LET request == tr'.request
              matching == {g.glossary_id : g \in requestGlossaries(server', request)}
          IN /\ matching # {} => request.glossary_id \in matching
             /\ request.glossary_id # NoId => request.glossary_id \in matching]_vars

listPrints == rd.pc # "done" /\ rd'.pc = "done" /\ rd'.caller = "command"

\* C10: the list command always fetches: it sends GET /glossaries even while
\* the cache is fresh, prints the list of the response and leaves that list in
\* the cache with the current time.
ListGlossariesAlwaysFetches ==
  [][listPrints =>
       /\ rd'.requested
       /\ rd'.result = server'
       /\ cache' = [lastUpdate |-> now', glossaries |-> rd'.result]]_vars

----------------------------------------------------------------------------
(* Properties of LocaleNode *)

\* C6: every record in the locales map of a LocaleNode has the keypath of the
\* node.
NodeRecordsShareKeypath ==
  node.type = "node" =>
    \A l \in DOMAIN node.locales : node.locales[l].keypath = node.keypath

\* C7: a LocaleNode holding a record that is not a shadow record does not have
\* shadow = true.
NodeShadowOnlyIfAllShadow ==
  node.type = "node" =>
    (node.shadow => \A l \in DOMAIN node.locales : node.locales[l].shadow)

getValueCalled == node.type = "node" /\ got # NoCall

\* C8: getValue(locale, fallback) is the value of the node's record for the
\* locale when there is one and its value is not empty, and the fallback (the
\* empty string when left out) otherwise; it is never undefined.
GetValueOrFallback ==
  getValueCalled =>
    /\ got.result # Undefined
    /\ IF got.locale \in DOMAIN node.locales /\ node.locales[got.locale].value # ""
       THEN got.result = node.locales[got.locale].value
       ELSE got.result = (IF got.fallback = Undefined THEN "" ELSE got.fallback)

\* getValue was asked, with the fallback left out, for the locale of a shadow
\* record with an empty value.
GetValueOrFallbackWitness ==
  /\ getValueCalled
  /\ got.fallback = Undefined
  /\ got.locale \in DOMAIN node.locales
  /\ node.locales[got.locale].shadow
  /\ node.locales[got.locale].value = ""
  /\ got.result = ""

----------------------------------------------------------------------------
(* Properties of the pending write queue *)

entriesFor(results, k) == {i \in DOMAIN results : writeKey(results[i].write) = k}

\* C9: the queue holds at most one write per (locale, keypath); after a flush
\* the batch holds, for every pair enqueued since the flush before, exactly one
\* write, carrying the value of the last enqueue for the pair, and none else.
QueueLastWriterWins ==
  /\ \A i, j \in DOMAIN queue : writeKey(queue[i]) = writeKey(queue[j]) => i = j
  /\ \A i \in DOMAIN queue :
       /\ writeKey(queue[i]) \in DOMAIN lastEnq
       /\ queue[i].value = lastEnq[writeKey(queue[i])].value
  /\ (queue = <<>> /\ lastEnq # NoEnqueues) =>
       /\ \A k \in DOMAIN lastEnq :
            /\ Cardinality(entriesFor(flushed, k)) = 1
            /\ \A i \in entriesFor(flushed, k) : flushed[i].write.value = lastEnq[k].value
       /\ \A i \in DOMAIN flushed : writeKey(flushed[i].write) \in DOMAIN lastEnq

\* (en, "a.b") was enqueued twice, "v1" then "v2", and the flush persisted one
\* write, with "v2".
QueueLastWriterWinsWitness ==
  /\ queue = <<>>
  /\ DOMAIN lastEnq = {<<"en", KeyAB>>}
  /\ lastEnq[<<"en", KeyAB>>] = [value |-> "v2", replaced |-> "v1"]
  /\ flushed = <<[write |-> PendingWrite("en", KeyAB, "v2"), ok |-> TRUE]>>

====
